---- MODULE Spec2Model ----
(***************************************************************************)
(* The export command of custom_reg_form                                   *)
(* (management/commands/email_opt_in_list_to_s3.py): the resolution of the *)
(* registration extension model, the field-to-model resolution, the query  *)
(* construction, and Command.handle as a sequential state machine with one *)
(* action per statement group.                                             *)
(*                                                                         *)
(* A call result is a record [exc, val, warned]: exc is the exception the  *)
(* call raises ("none" when it returns), val the returned value, warned    *)
(* whether LOGGER.warning was called on the way.                           *)
(***************************************************************************)
EXTENDS Integers, Sequences, FiniteSets, TLC

\* Python's None, and a setting that django.conf.settings does not hold.
None == "None"
Unset == "unset"

\* ------------------------------------------------------------------ bounds
MaxFields == 2    \* longest --fields list given to construct_query directly
MaxRows == 2      \* rows in the result set of the query
MaxBatch == 2     \* largest cursor.arraysize (rows per fetchmany)

\* ------------------------------------------------------------- input sets
\* Attribute names the three models may carry (SpecResolve draws the schemas).
Names == {"id", "username", "allow_marketing_emails"}

\* What importing a dotted path yields: a class, a module without the
\* attribute ("noattr": AttributeError), or no such module ("nomodule").
ModelSettings == {Unset, "ExtraInfo", "noattr", "nomodule"}
FormSettings == {Unset, "ExtraInfoForm", "PlainForm", "noattr", "nomodule"}

\* Settings of the runs of handle.
RunSettings ==
    { [REGISTRATION_EXTENSION_MODEL |-> m, REGISTRATION_EXTENSION_FORM |-> f] :
        m \in {Unset, "ExtraInfo", "noattr"}, f \in {Unset, "ExtraInfoForm"} }

\* --fields of the runs of handle ("nickname" is on none of the models).
RunFields ==
    { <<"username">>,
      <<"username", "allow_marketing_emails">>,
      <<"id", "id">>,
      <<"nickname">>,
      <<"username", "nickname">> }

\* Column values a row may hold.
Values == {None, "a", "b"}

\* Settings that exist besides the two above, and the option values naming one.
DefinedSettings == {"CVS_EXPORTER_S3_KEY", "CVS_EXPORTER_S3_SECRET"}
AccessKeyOptions == {None, "CVS_EXPORTER_S3_KEY", "NO_SUCH_SETTING"}
SecretKeyOptions == {None, "CVS_EXPORTER_S3_SECRET", "NO_SUCH_SETTING"}

SeqsUpTo(S, n) == UNION { [1..k -> S] : k \in 0..n }
Min(a, b) == IF a < b THEN a ELSE b

VARIABLES
    userAttrs,      \* attributes of get_user_model()
    profileAttrs,   \* attributes of UserProfile
    extAttrs,       \* attributes of ExtraInfo
    settings,       \* django.conf.settings: the two registration settings
    options,        \* the parsed command line
    pc,             \* position in handle
    cursor,         \* "none" | "open" | "closed"
    executed,       \* number of cursor.execute calls
    query,          \* the query given to cursor.execute
    resultset,      \* the rows the query selects
    rownumber,      \* rows fetched so far
    emptyBatches,   \* number of empty batches fetchmany returned
    binary_fd,      \* [state, data, pos]: the byte sink, in CSV records
    text_fd,        \* "none" | "open" | "closed"
    aws_access_key_id,
    aws_secret_access_key,
    session,        \* the boto3 session: [opened, profile_name, credentials]
    uploads,        \* put_object calls: [body, outcome]
    log,            \* LOGGER calls
    error,          \* [type, at]: the exception that ended the run
    call            \* SpecResolve: the last direct call [fn, arg, ret]

vars == <<userAttrs, profileAttrs, extAttrs, settings, options, pc, cursor,
          executed, query, resultset, rownumber, emptyBatches, binary_fd,
          text_fd, aws_access_key_id, aws_secret_access_key, session,
          uploads, log, error, call>>

schemaVars == <<userAttrs, profileAttrs, extAttrs, settings, options>>
dbVars == <<cursor, executed, query, resultset, rownumber, emptyBatches>>
sinkVars == <<binary_fd, text_fd>>
awsVars == <<aws_access_key_id, aws_secret_access_key, session, uploads>>

\* ------------------------------------------------------ results of a call
Return(v) == [exc |-> "none", val |-> v, warned |-> FALSE]
Raise(e) == [exc |-> e, val |-> None, warned |-> FALSE]

\* ------------------------------------------- get_registration_ext_model
get_model_class(model_class_path) ==
    CASE model_class_path = "nomodule" -> Raise("ImportError")
      [] model_class_path = "noattr" ->
            [exc |-> "none", val |-> None, warned |-> TRUE]
      [] OTHER -> Return(model_class_path)

\* issubclass(cls, ModelForm) and cls.Meta.model (forms.py).
IsModelForm(cls) == cls = "ExtraInfoForm"
MetaModel(cls) == "ExtraInfo"

get_registration_ext_model ==
    IF settings.REGISTRATION_EXTENSION_MODEL # Unset
    THEN get_model_class(settings.REGISTRATION_EXTENSION_MODEL)
    ELSE IF settings.REGISTRATION_EXTENSION_FORM # Unset
    THEN LET r == get_model_class(settings.REGISTRATION_EXTENSION_FORM) IN
         IF r.exc # "none" THEN r
         ELSE IF r.val = None
         THEN [exc |-> "TypeError", val |-> None, warned |-> r.warned]
         ELSE IF IsModelForm(r.val) THEN Return(MetaModel(r.val))
         ELSE Raise("RuntimeError")
    ELSE Raise("RuntimeError")

\* ---------------------------------------------------- infer_field_model
\* hasattr(model, field); None carries none of the field names.
hasattr(model, field) ==
    CASE model = "User" -> field \in userAttrs
      [] model = "UserProfile" -> field \in profileAttrs
      [] model = "ExtraInfo" -> field \in extAttrs
      [] OTHER -> FALSE

\* model._meta.db_table
db_table(model) ==
    CASE model = "User" -> "auth_user"
      [] model = "UserProfile" -> "auth_userprofile"
      [] OTHER -> "custom_reg_form_extrainfo"

infer_field_model_profile_first(field) ==
    IF hasattr("UserProfile", field) THEN Return("UserProfile")
    ELSE IF hasattr("User", field) THEN Return("User")
    ELSE LET r == get_registration_ext_model IN
         IF r.exc # "none" THEN r
         ELSE IF hasattr(r.val, field) THEN Return(r.val)
         ELSE [exc |-> "Exception", val |-> None, warned |-> r.warned]

infer_field_model_default_ext(field) ==
    IF hasattr("User", field) THEN Return("User")
    ELSE IF hasattr("UserProfile", field) THEN Return("UserProfile")
    ELSE get_registration_ext_model

infer_field_model(field) ==
    IF hasattr("User", field) THEN Return("User")
    ELSE IF hasattr("UserProfile", field) THEN Return("UserProfile")
    ELSE LET r == get_registration_ext_model IN
         IF r.exc # "none" THEN r
         ELSE IF hasattr(r.val, field) THEN Return(r.val)
         ELSE [exc |-> "Exception", val |-> None, warned |-> r.warned]

\* ------------------------------------------------------ construct_query
\* The select list is kept as the sequence of <<table, field>> pairs that
\* ", ".join and ".".join write out, the rest of the template as its tables.
RECURSIVE Dedup(_)
Dedup(s) ==
    IF s = <<>> THEN <<>>
    ELSE LET r == Dedup(SubSeq(s, 1, Len(s) - 1)) IN
         IF \E i \in 1..Len(r) : r[i] = s[Len(s)] THEN r
         ELSE Append(r, s[Len(s)])

field_names_dedup(fields) ==
    LET d == Dedup(fields) IN
    [i \in 1..Len(d) |-> <<db_table(infer_field_model(d[i]).val), d[i]>>]

field_names(fields) ==
    [i \in 1..Len(fields) |->
        <<db_table(infer_field_model(fields[i]).val), fields[i]>>]

construct_query(fields) ==
    LET ext == get_registration_ext_model
        bad == { i \in 1..Len(fields) : infer_field_model(fields[i]).exc # "none" }
        first == CHOOSE i \in bad : \A j \in bad : i <= j
    IN  IF ext.exc # "none" THEN ext
        ELSE IF ext.val = None
        THEN [exc |-> "AttributeError", val |-> None, warned |-> ext.warned]
        ELSE IF bad # {} THEN infer_field_model(fields[first])
        ELSE Return([select |-> field_names(fields),
                     from |-> db_table("User"),
                     left_join |-> db_table(ext.val),
                     join |-> "auth_userprofile"])

\* ------------------------------------------------------------ csv.writer
\* writerow: None is written as the empty field, a string as itself.
CsvRecord(row) == [i \in 1..Len(row) |-> IF row[i] = None THEN "" ELSE row[i]]

RECURSIVE CsvRecords(_)
CsvRecords(rows) ==
    IF rows = <<>> THEN <<>>
    ELSE <<CsvRecord(Head(rows))>> \o CsvRecords(Tail(rows))

\* `None in row`
NoneIn(row) == \E i \in 1..Len(row) : row[i] = None

skip_row_first_column(row) == options.skip_when_null /\ row[1] = None

\* line 218: the row is skipped
skip_row(row) == options.skip_when_null /\ NoneIn(row)

\* lines 217-221: the rows of one batch that are written
RECURSIVE written_rows(_)
written_rows(rows) ==
    IF rows = <<>> THEN <<>>
    ELSE IF skip_row(Head(rows)) THEN written_rows(Tail(rows))
    ELSE <<Head(rows)>> \o written_rows(Tail(rows))

\* ---------------------------------------------------------------- handle
\* No boto3 session yet.
NoSession == [opened |-> FALSE, profile_name |-> None,
              aws_access_key_id |-> None, aws_secret_access_key |-> None]
NoError == [type |-> "none", at |-> "none"]
Fail(type) == /\ error' = [type |-> type, at |-> pc]
              /\ pc' = "failed"

\* line 199: connections[read_replica_or_default()].cursor()
OpenCursor ==
    /\ pc = "cursor"
    /\ \/ /\ cursor' = "open"
          /\ pc' = "construct_query"
          /\ UNCHANGED error
       \/ /\ Fail("OperationalError")
          /\ UNCHANGED cursor
    /\ UNCHANGED <<schemaVars, executed, query, resultset, rownumber,
                   emptyBatches, sinkVars, awsVars, log, call>>

\* line 200, the argument: construct_query(options["fields"])
ConstructQuery ==
    /\ pc = "construct_query"
    /\ LET r == construct_query(options.fields) IN
       /\ log' = IF r.warned THEN Append(log, "warning") ELSE log
       /\ IF r.exc # "none"
          THEN Fail(r.exc) /\ UNCHANGED query
          ELSE /\ query' = r.val
               /\ pc' = "execute"
               /\ UNCHANGED error
    /\ UNCHANGED <<schemaVars, cursor, executed, resultset, rownumber,
                   emptyBatches, sinkVars, awsVars, call>>

ResultSets == SeqsUpTo([1..Len(options.fields) -> Values], MaxRows)

\* line 200, the call: cursor.execute(query)
Execute ==
    /\ pc = "execute"
    /\ executed' = executed + 1
    /\ \/ /\ \E rs \in ResultSets : resultset' = rs
          /\ pc' = "init_sink"
          /\ UNCHANGED error
       \/ /\ Fail("DatabaseError")
          /\ UNCHANGED resultset
    /\ UNCHANGED <<schemaVars, cursor, query, rownumber, emptyBatches,
                   sinkVars, awsVars, log, call>>

\* lines 203-205: the byte sink (a temporary file or a BytesIO, the same
\* file interface either way), the text wrapper, the csv writer
InitSink ==
    /\ pc = "init_sink"
    /\ binary_fd' = [state |-> "open", data |-> <<>>, pos |-> 0]
    /\ text_fd' = "open"
    /\ pc' = "write_header"
    /\ UNCHANGED <<schemaVars, dbVars, awsVars, log, error, call>>

\* writer.writerow through the write-through wrapper: appended at the end
Write(fd, records) ==
    [fd EXCEPT !.data = fd.data \o records,
               !.pos = Len(fd.data) + Len(records)]

\* line 207
WriteHeader ==
    /\ pc = "write_header"
    /\ binary_fd' = Write(binary_fd, <<options.fields>>)
    /\ pc' = "fetch"
    /\ UNCHANGED <<schemaVars, dbVars, text_fd, awsVars, log, error, call>>

\* lines 209-221: one turn of the loop, cursor.fetchmany() and its rows
FetchMany ==
    /\ pc = "fetch"
    /\ \/ \E arraysize \in 1..MaxBatch :
            LET rows == SubSeq(resultset, rownumber + 1,
                               Min(rownumber + arraysize, Len(resultset)))
            IN  /\ rownumber' = rownumber + Len(rows)
                /\ IF rows = <<>>
                   THEN /\ emptyBatches' = emptyBatches + 1
                        /\ pc' = "close_cursor"
                        /\ UNCHANGED binary_fd
                   ELSE /\ binary_fd' = Write(binary_fd, CsvRecords(written_rows(rows)))
                        /\ UNCHANGED <<emptyBatches, pc>>
                /\ UNCHANGED error
       \/ /\ Fail("DatabaseError")
          /\ UNCHANGED <<rownumber, emptyBatches, binary_fd>>
    /\ UNCHANGED <<schemaVars, cursor, executed, query, resultset, text_fd,
                   awsVars, log, call>>

\* line 223
CloseCursor ==
    /\ pc = "close_cursor"
    /\ cursor' = "closed"
    /\ pc' = "seek"
    /\ UNCHANGED <<schemaVars, executed, query, resultset, rownumber,
                   emptyBatches, sinkVars, awsVars, log, error, call>>

SeekOmitted ==
    /\ pc = "seek"
    /\ pc' = "access_key"
    /\ UNCHANGED <<schemaVars, dbVars, sinkVars, awsVars, log, error, call>>

\* line 224: binary_fd.seek(0)
Seek ==
    /\ pc = "seek"
    /\ binary_fd' = [binary_fd EXCEPT !.pos = 0]
    /\ pc' = "access_key"
    /\ UNCHANGED <<schemaVars, dbVars, text_fd, awsVars, log, error, call>>

\* `if options[...]:` takes None and the empty string as not given.
Truthy(v) == v \notin {None, ""}

\* getattr(settings, name)
SettingValue(name) ==
    IF name = "CVS_EXPORTER_S3_KEY" THEN "access key value" ELSE "secret key value"

LookupAccessKeyDefaultNone ==
    /\ pc = "access_key"
    /\ aws_access_key_id' =
          IF options.aws_access_key_setting \in DefinedSettings
          THEN SettingValue(options.aws_access_key_setting) ELSE None
    /\ pc' = "secret_key"
    /\ UNCHANGED <<schemaVars, dbVars, sinkVars, aws_secret_access_key,
                   session, uploads, log, error, call>>

\* lines 226-228
LookupAccessKey ==
    /\ pc = "access_key"
    /\ IF ~ Truthy(options.aws_access_key_setting)
       THEN /\ aws_access_key_id' = None
            /\ pc' = "secret_key"
            /\ UNCHANGED error
       ELSE IF options.aws_access_key_setting \in DefinedSettings
       THEN /\ aws_access_key_id' = SettingValue(options.aws_access_key_setting)
            /\ pc' = "secret_key"
            /\ UNCHANGED error
       ELSE /\ Fail("AttributeError")
            /\ UNCHANGED aws_access_key_id
    /\ UNCHANGED <<schemaVars, dbVars, sinkVars, aws_secret_access_key,
                   session, uploads, log, call>>

\* lines 230-232
LookupSecretKey ==
    /\ pc = "secret_key"
    /\ IF ~ Truthy(options.aws_secret_key_setting)
       THEN /\ aws_secret_access_key' = None
            /\ pc' = "session"
            /\ UNCHANGED error
       ELSE IF options.aws_secret_key_setting \in DefinedSettings
       THEN /\ aws_secret_access_key' = SettingValue(options.aws_secret_key_setting)
            /\ pc' = "session"
            /\ UNCHANGED error
       ELSE /\ Fail("AttributeError")
            /\ UNCHANGED aws_secret_access_key
    /\ UNCHANGED <<schemaVars, dbVars, sinkVars, aws_access_key_id,
                   session, uploads, log, call>>

\* lines 234-240: boto3.Session(...) and session.resource("s3")
OpenSession ==
    /\ pc = "session"
    /\ \/ /\ session' = [opened |-> TRUE,
                         profile_name |-> options.aws_profile,
                         aws_access_key_id |-> aws_access_key_id,
                         aws_secret_access_key |-> aws_secret_access_key]
          /\ pc' = "put_object"
          /\ UNCHANGED error
       \/ /\ Fail("BotoCoreError")
          /\ UNCHANGED session
    /\ UNCHANGED <<schemaVars, dbVars, sinkVars, aws_access_key_id,
                   aws_secret_access_key, uploads, log, call>>

\* The body put_object reads: the sink from its position to its end.
Body(fd) == SubSeq(fd.data, fd.pos + 1, Len(fd.data))

PutObjectPropagates ==
    /\ pc = "put_object"
    /\ binary_fd' = [binary_fd EXCEPT !.pos = Len(binary_fd.data)]
    /\ \E outcome \in {"ok", "NoCredentialsError", "ClientError"} :
         /\ outcome = "NoCredentialsError" => session.aws_access_key_id = None
                                              \/ session.aws_secret_access_key = None
         /\ uploads' = Append(uploads, [body |-> Body(binary_fd), outcome |-> outcome])
         /\ IF outcome = "ok"
            THEN pc' = "close_text" /\ UNCHANGED error
            ELSE Fail(outcome)
    /\ UNCHANGED <<schemaVars, dbVars, text_fd, aws_access_key_id,
                   aws_secret_access_key, session, log, call>>

\* lines 242-248: put_object, and the except clause
PutObject ==
    /\ pc = "put_object"
    /\ binary_fd' = [binary_fd EXCEPT !.pos = Len(binary_fd.data)]
    /\ \E outcome \in {"ok", "NoCredentialsError", "ClientError"} :
         /\ outcome = "NoCredentialsError" => session.aws_access_key_id = None
                                              \/ session.aws_secret_access_key = None
         /\ uploads' = Append(uploads, [body |-> Body(binary_fd), outcome |-> outcome])
         /\ CASE outcome = "ok" ->
                   pc' = "close_text" /\ UNCHANGED <<log, error>>
              [] outcome = "NoCredentialsError" ->
                   /\ log' = Append(log, "exception NoCredentialsError")
                   /\ pc' = "close_text"
                   /\ UNCHANGED error
              [] OTHER -> Fail(outcome) /\ UNCHANGED log
    /\ UNCHANGED <<schemaVars, dbVars, text_fd, aws_access_key_id,
                   aws_secret_access_key, session, call>>

\* line 250: closing the wrapper closes the sink it wraps
CloseTextFd ==
    /\ pc = "close_text"
    /\ text_fd' = "closed"
    /\ binary_fd' = [binary_fd EXCEPT !.state = "closed"]
    /\ pc' = "close_binary"
    /\ UNCHANGED <<schemaVars, dbVars, awsVars, log, error, call>>

\* line 251
CloseBinaryFd ==
    /\ pc = "close_binary"
    /\ binary_fd' = [binary_fd EXCEPT !.state = "closed"]
    /\ pc' = "done"
    /\ UNCHANGED <<schemaVars, dbVars, text_fd, awsVars, log, error, call>>

\* ------------------------------------------------------- specifications
NoCall == [fn |-> "none", arg |-> None, ret |-> Return(None)]

InitRun ==
    /\ pc = "cursor"
    /\ cursor = "none"
    /\ executed = 0
    /\ query = None
    /\ resultset = <<>>
    /\ rownumber = 0
    /\ emptyBatches = 0
    /\ binary_fd = [state |-> "none", data |-> <<>>, pos |-> 0]
    /\ text_fd = "none"
    /\ aws_access_key_id = None
    /\ aws_secret_access_key = None
    /\ session = NoSession
    /\ uploads = <<>>
    /\ log = <<>>
    /\ error = NoError
    /\ call = NoCall

\* The models of the platform and of models.py, and one command line.
Init ==
    /\ userAttrs = {"id", "username"}
    /\ profileAttrs = {"id", "name"}
    /\ extAttrs = {"id", "allow_marketing_emails"}
    /\ settings \in RunSettings
    /\ options \in [fields : RunFields,
                    skip_when_null : BOOLEAN,
                    aws_access_key_setting : AccessKeyOptions,
                    aws_secret_key_setting : SecretKeyOptions,
                    aws_profile : {None}]
    /\ InitRun

Next ==
    \/ OpenCursor
    \/ ConstructQuery
    \/ Execute
    \/ InitSink
    \/ WriteHeader
    \/ FetchMany
    \/ CloseCursor
    \/ Seek
    \/ LookupAccessKey
    \/ LookupSecretKey
    \/ OpenSession
    \/ PutObject
    \/ CloseTextFd
    \/ CloseBinaryFd

Spec == Init /\ [][Next]_vars

\* The three functions called directly, on drawn schemas and settings.
InitResolve ==
    /\ userAttrs \in SUBSET Names
    /\ profileAttrs \in SUBSET Names
    /\ extAttrs \in SUBSET Names
    /\ settings \in [REGISTRATION_EXTENSION_MODEL : ModelSettings,
                     REGISTRATION_EXTENSION_FORM : FormSettings]
    /\ options = [fields |-> <<>>, skip_when_null |-> TRUE,
                  aws_access_key_setting |-> None,
                  aws_secret_key_setting |-> None, aws_profile |-> None]
    /\ InitRun

runVars == <<schemaVars, pc, dbVars, sinkVars, awsVars, log, error>>

CallGetRegistrationExtModel ==
    /\ call = NoCall
    /\ call' = [fn |-> "get_registration_ext_model", arg |-> None,
                ret |-> get_registration_ext_model]
    /\ UNCHANGED runVars

CallInferFieldModel ==
    /\ call = NoCall
    /\ \E field \in Names :
         call' = [fn |-> "infer_field_model", arg |-> field,
                  ret |-> infer_field_model(field)]
    /\ UNCHANGED runVars

CallConstructQuery ==
    /\ call = NoCall
    /\ \E fields \in SeqsUpTo(Names, MaxFields) \ {<<>>} :
         call' = [fn |-> "construct_query", arg |-> fields,
                  ret |-> construct_query(fields)]
    /\ UNCHANGED runVars

NextResolve ==
    \/ CallGetRegistrationExtModel
    \/ CallInferFieldModel
    \/ CallConstructQuery

SpecResolve == InitResolve /\ [][NextResolve]_vars

\* ================================================================ claims
\* Stated from the inputs and the recorded outcome, not from the operators
\* above.

OnSomeSchema(name) == name \in userAttrs \cup profileAttrs \cup extAttrs

\* The table of the first schema, in the order user, profile, extension,
\* that carries the name.
OwnerTable(name) ==
    IF name \in userAttrs THEN "auth_user"
    ELSE IF name \in profileAttrs THEN "auth_userprofile"
    ELSE "custom_reg_form_extrainfo"

\* The settings yield the extension model: the configured path imports to the
\* model, or no path is configured and the configured form is a ModelForm.
ExtModelConfigured ==
    \/ settings.REGISTRATION_EXTENSION_MODEL = "ExtraInfo"
    \/ /\ settings.REGISTRATION_EXTENSION_MODEL = Unset
       /\ settings.REGISTRATION_EXTENSION_FORM = "ExtraInfoForm"

\* C1: with the three schemas in place (the settings yield the extension
\* model) and every requested name on one of them, construct_query returns a
\* query whose select list has one entry per requested name, in the requested
\* order, the i-th entry being the i-th name qualified by the table of the
\* schema it resolves to; a name requested twice appears twice.
C1_SelectListInRequestedOrder ==
    ( /\ call.fn = "construct_query"
      /\ ExtModelConfigured
      /\ \A i \in 1..Len(call.arg) : OnSomeSchema(call.arg[i]) )
    => /\ call.ret.exc = "none"
       /\ Len(call.ret.val.select) = Len(call.arg)
       /\ \A i \in 1..Len(call.arg) :
            call.ret.val.select[i] = <<OwnerTable(call.arg[i]), call.arg[i]>>

\* A name of the extension schema requested twice and selected twice.
C1_Witness ==
    /\ call.fn = "construct_query"
    /\ ExtModelConfigured
    /\ Len(call.arg) = 2
    /\ call.arg[1] = call.arg[2]
    /\ call.ret.exc = "none"
    /\ call.ret.val.select = << <<"custom_reg_form_extrainfo", call.arg[1]>>,
                                <<"custom_reg_form_extrainfo", call.arg[1]>> >>

\* C8: infer_field_model resolves by first match in the order user, profile,
\* extension: a name on the user schema resolves to the user model whatever
\* the other two carry, a name off the user schema and on the profile schema
\* to the profile model, and the extension model is returned only for a name
\* that is on neither of the first two.
C8_FirstMatchInFixedOrder ==
    call.fn = "infer_field_model"
    => /\ call.arg \in userAttrs
            => call.ret.exc = "none" /\ call.ret.val = "User"
       /\ (call.arg \notin userAttrs /\ call.arg \in profileAttrs)
            => call.ret.exc = "none" /\ call.ret.val = "UserProfile"
       /\ (call.ret.exc = "none" /\ call.ret.val = "ExtraInfo")
            => /\ call.arg \notin userAttrs \cup profileAttrs
               /\ call.arg \in extAttrs

\* A name all three schemas carry, resolved to the user model.
C8_Witness ==
    /\ call.fn = "infer_field_model"
    /\ call.arg \in userAttrs \cap profileAttrs \cap extAttrs
    /\ call.ret.val = "User"

\* C9: get_registration_ext_model falls back to the extension form whenever
\* the model path is not set or cannot be imported: with the form set to a
\* ModelForm it returns the form's Meta.model; when no model can be had it
\* raises RuntimeError; it never returns None.
C9_FallsBackWheneverModelNotImportable ==
    call.fn = "get_registration_ext_model"
    => /\ ( /\ settings.REGISTRATION_EXTENSION_MODEL # "ExtraInfo"
            /\ settings.REGISTRATION_EXTENSION_FORM = "ExtraInfoForm" )
            => call.ret.exc = "none" /\ call.ret.val = "ExtraInfo"
       /\ ( /\ settings.REGISTRATION_EXTENSION_MODEL # "ExtraInfo"
            /\ settings.REGISTRATION_EXTENSION_FORM # "ExtraInfoForm" )
            => call.ret.exc = "RuntimeError"
       /\ call.ret.exc = "none" => call.ret.val # None

\* ------------------------------------------------------ the runs of handle
AfterFetch == {"close_cursor", "seek", "access_key", "secret_key", "session",
               "put_object", "close_text", "close_binary", "done"}
AfterAccessKey == AfterFetch \ {"close_cursor", "seek", "access_key"}
AfterSecretKey == AfterAccessKey \ {"secret_key"}

HasNone(row) == None \in { row[i] : i \in 1..Len(row) }

\* The rows a run is to keep, and a row as the CSV holds it.
Kept(rows) ==
    SelectSeq(rows, LAMBDA row : ~ (options.skip_when_null /\ HasNone(row)))
AsFields(row) == [i \in 1..Len(row) |-> IF row[i] = None THEN "" ELSE row[i]]
ExpectedCsv(rows) ==
    <<options.fields>> \o [i \in 1..Len(Kept(rows)) |-> AsFields(Kept(rows)[i])]

NullRows(rows) == Cardinality({ i \in 1..Len(rows) : HasNone(rows[i]) })

\* C2: once the fetch loop has ended, all N rows of the result set have been
\* fetched and the CSV is the header row (the requested names in order)
\* followed by the fetched rows in fetch order, a row being dropped exactly
\* when skip-when-null is on and the row holds a null: N-K data rows with
\* skip on and K rows holding a null, N data rows with skip off. While the
\* loop runs the same holds of the rows fetched so far.
C2_CsvIsHeaderThenKeptRows ==
    /\ pc = "fetch"
         => binary_fd.data = ExpectedCsv(SubSeq(resultset, 1, rownumber))
    /\ pc \in AfterFetch
         => /\ rownumber = Len(resultset)
            /\ binary_fd.data = ExpectedCsv(resultset)
            /\ Len(binary_fd.data) - 1 =
                 IF options.skip_when_null
                 THEN Len(resultset) - NullRows(resultset)
                 ELSE Len(resultset)

\* Two rows, the second with a null in its last column only, skip on: one
\* data row.
C2_Witness ==
    /\ pc = "done"
    /\ options.skip_when_null
    /\ options.fields = <<"username", "allow_marketing_emails">>
    /\ Len(resultset) = 2
    /\ resultset[2][1] # None
    /\ resultset[2][2] = None
    /\ Len(binary_fd.data) = 2

HasUnresolvable ==
    \E i \in 1..Len(options.fields) : ~ OnSomeSchema(options.fields[i])

ResolutionErrors ==
    {"Exception", "RuntimeError", "AttributeError", "ImportError", "TypeError"}

\* C3: when a requested name is on none of the three schemas the run never
\* gets past construct_query: cursor.execute is not called, no row is
\* fetched, no sink is created, nothing is written or uploaded, and
\* construct_query ends the run with an error of the resolution.
C3_UnresolvableNameFailsBeforeExecute ==
    HasUnresolvable
    => /\ pc \in {"cursor", "construct_query", "failed"}
       /\ pc = "failed" => error.at \in {"cursor", "construct_query"}
       /\ error.at = "construct_query" => error.type \in ResolutionErrors
       /\ executed = 0
       /\ query = None
       /\ rownumber = 0
       /\ binary_fd.state = "none"
       /\ binary_fd.data = <<>>
       /\ ~ session.opened
       /\ uploads = <<>>

\* A resolvable name followed by an unresolvable one: infer_field_model
\* raised on the second.
C3_Witness ==
    /\ options.fields = <<"username", "nickname">>
    /\ pc = "failed"
    /\ error = [type |-> "Exception", at |-> "construct_query"]

\* C4: with neither registration setting present the run fails before
\* touching the database: when the failure is raised no cursor has been
\* opened and no query executed.
C4_FailsBeforeTouchingDatabase ==
    ( /\ settings.REGISTRATION_EXTENSION_MODEL = Unset
      /\ settings.REGISTRATION_EXTENSION_FORM = Unset
      /\ pc = "failed" )
    => cursor = "none" /\ executed = 0

NoCredentialsRaised ==
    \E i \in 1..Len(uploads) : uploads[i].outcome = "NoCredentialsError"

\* C5: when put_object raises NoCredentialsError the error is logged and
\* not propagated, the run goes on to close the text wrapper and the byte
\* sink and ends normally, and put_object is not called again.
C5_NoCredentialsLoggedAndRunCompletes ==
    NoCredentialsRaised
    => /\ pc \in {"close_text", "close_binary", "done"}
       /\ error = NoError
       /\ log = <<"exception NoCredentialsError">>
       /\ Len(uploads) = 1
       /\ pc \in {"close_binary", "done"} => text_fd = "closed"
       /\ pc = "done" => binary_fd.state = "closed"

C5_Witness ==
    /\ NoCredentialsRaised
    /\ pc = "done"
    /\ text_fd = "closed"

\* C6: cleanup whatever step failed: at the end of every run in which the
\* byte sink was created the text wrapper and the byte sink are closed, and
\* at the end of every run in which the cursor was opened it is closed.
C6_CleanupWhateverStepFailed ==
    pc \in {"done", "failed"}
    => /\ binary_fd.state # "none"
            => text_fd = "closed" /\ binary_fd.state = "closed"
       /\ cursor # "none" => cursor = "closed"

MissingAccessKeySetting ==
    options.aws_access_key_setting \notin DefinedSettings \cup {None}
MissingSecretKeySetting ==
    options.aws_secret_key_setting \notin DefinedSettings \cup {None}
ErrorAt == IF pc = "failed" THEN error.at ELSE "none"

\* C7: when --aws-access-key-setting (or --aws-secret-key-setting) names a
\* setting that does not exist the run does not get past that lookup: it
\* ends there with the AttributeError, nothing having been logged, no
\* session opened and no upload attempted; when the option is not given the
\* session gets that credential as None.
C7_MissingCredentialSettingPropagates ==
    /\ MissingAccessKeySetting
         => /\ pc \notin AfterAccessKey /\ ErrorAt \notin AfterAccessKey
            /\ ~ session.opened /\ uploads = <<>>
    /\ MissingSecretKeySetting
         => /\ pc \notin AfterSecretKey /\ ErrorAt \notin AfterSecretKey
            /\ ~ session.opened /\ uploads = <<>>
    /\ ErrorAt = "access_key"
         => MissingAccessKeySetting /\ error.type = "AttributeError" /\ log = <<>>
    /\ ErrorAt = "secret_key"
         => MissingSecretKeySetting /\ error.type = "AttributeError" /\ log = <<>>
    /\ session.opened
         => /\ options.aws_access_key_setting = None
                 => session.aws_access_key_id = None
            /\ options.aws_secret_key_setting = None
                 => session.aws_secret_access_key = None

\* The CSV written and the sink rewound, then the access key lookup raised.
C7_Witness ==
    /\ MissingAccessKeySetting
    /\ pc = "failed"
    /\ error = [type |-> "AttributeError", at |-> "access_key"]
    /\ Len(binary_fd.data) > 1
    /\ binary_fd.pos = 0

\* C10: the steps of a run are in order and none is revisited: execute is
\* called at most once, the header is the first record written and precedes
\* every fetch, the loop is left at its first empty batch, and put_object is
\* called at most once, after the loop has ended, the cursor has been closed
\* and the sink rewound to 0, with the whole CSV from its header as the body.
C10_StepsInOrderUploadOfWholeCsv ==
    /\ executed <= 1
    /\ emptyBatches <= 1
    /\ Len(uploads) <= 1
    /\ binary_fd.data # <<>> => executed = 1 /\ binary_fd.data[1] = options.fields
    /\ rownumber > 0 => binary_fd.data # <<>>
    /\ emptyBatches = 1 <=> (pc \in AfterFetch \/ ErrorAt \in AfterFetch)
    /\ pc = "fetch" => emptyBatches = 0 /\ cursor = "open"
    /\ pc = "put_object" => cursor = "closed" /\ binary_fd.pos = 0
    /\ uploads # <<>>
         => /\ emptyBatches = 1
            /\ cursor = "closed"
            /\ uploads[1].body = binary_fd.data
            /\ uploads[1].body = ExpectedCsv(resultset)

\* The header and two data rows uploaded.
C10_Witness ==
    /\ uploads # <<>>
    /\ Len(uploads[1].body) = 3
    /\ rownumber = 2

====
